---- MODULE Spec2Model ----
(***************************************************************************)
(* Model of minemeld/ft/st.py: a segment tree kept in an ordered key-value *)
(* store (LevelDB).  Keys and values are byte strings, modelled as         *)
(* sequences of integers in 0..255; the store orders keys byte-wise.       *)
(***************************************************************************)
EXTENDS Integers, Sequences, FiniteSets, TLC

(* ------------------------------ bounds --------------------------------- *)
\* bit width of the endpoints handed to ST.__init__
epsize == 2
\* number of put/delete calls of one behaviour
MaxOps == 2

(* ------------------------- program constants --------------------------- *)
MAX_LEVEL == 254
TYPE_START == 0
TYPE_END == 1

\* self.max_endpoint = (1 << epsize)
max_endpoint == 2 ^ epsize

\* Python's None for the optional level and uuid_ arguments of the key codec
NoneLevel == -1
NoneUuid == << -1 >>

(* ------------------------------ struct --------------------------------- *)
RECURSIVE PackN(_, _)
\* the k low-order bytes of n, most significant first
PackN(n, k) == IF k = 0 THEN << >> ELSE PackN(n \div 256, k - 1) \o << n % 256 >>

\* struct.pack(">Q", n)
PackQ(n) == PackN(n, 8)

RECURSIVE UnpackN(_, _)
\* big-endian value of the first k bytes of b
UnpackN(b, k) == IF k = 0 THEN 0 ELSE UnpackN(b, k - 1) * 256 + b[k]

\* struct.unpack(">Q", b)
UnpackQ(b) == UnpackN(b, 8)

\* struct.pack raises struct.error for a Q outside 0..2^64-1; the endpoints
\* of this model stay far below 2^64, so only a negative number is refused
QOk(n) == n >= 0

\* struct.pack raises struct.error for a B outside 0..255
BOk(n) == n >= 0 /\ n <= 255

\* b[from..] of a byte string
Tail_(b, from) == SubSeq(b, from, Len(b))

(* ---------------------------- byte order ------------------------------- *)
RECURSIVE BytesLessFrom(_, _, _)
\* a < b, given that a and b agree before position i
BytesLessFrom(a, b, i) ==
    IF i > Len(a) THEN i <= Len(b)
    ELSE IF i > Len(b) THEN FALSE
    ELSE IF a[i] = b[i] THEN BytesLessFrom(a, b, i + 1)
    ELSE a[i] < b[i]

\* LevelDB's default comparator: byte-wise lexicographic, a proper prefix
\* sorts first
BytesLess(a, b) == BytesLessFrom(a, b, 1)

(* ----------------------------- key codec ------------------------------- *)
_segment_key(start, end, uuid_, level) ==
    << 1 >> \o PackQ(start) \o PackQ(end) \o
    (IF level # NoneLevel
        THEN << level >> \o (IF uuid_ # NoneUuid THEN uuid_ ELSE << >>)
        ELSE << >>)

\* returns (start, end, level, uuid_)
_split_segment_key(key) ==
    << UnpackQ(SubSeq(key, 2, 9)), UnpackQ(SubSeq(key, 10, 17)), key[18],
       Tail_(key, 19) >>

\* _endpoint_key with the type byte before the level byte
_endpoint_key_TypeFirst(endpoint, level, type_, uuid_) ==
    << 2 >> \o PackQ(endpoint) \o
    (IF level # NoneLevel
        THEN (IF type_ # NoneLevel
                 THEN << type_, level >> \o (IF uuid_ # NoneUuid THEN uuid_ ELSE << >>)
                 ELSE << level >>)
        ELSE << >>)

_endpoint_key(endpoint, level, type_, uuid_) ==
    << 2 >> \o PackQ(endpoint) \o
    (IF level # NoneLevel
        THEN << level >> \o
             (IF type_ # NoneLevel
                 THEN << type_ >> \o (IF uuid_ # NoneUuid THEN uuid_ ELSE << >>)
                 ELSE << >>)
        ELSE << >>)

\* returns (endpoint, level, type_ == TYPE_START, uuid_)
_split_endpoint_key(k) ==
    << UnpackQ(SubSeq(k, 2, 9)), k[10], k[11] = TYPE_START, Tail_(k, 12) >>

(* ------------------------ canonical decomposition ---------------------- *)
\* SplitCovered without the test of the upper bound
SplitCovered_StartOnly(start, end, lower, upper) == start <= lower

\* SplitCovered that accepts leaves only
SplitCovered_LeafOnly(start, end, lower, upper) ==
    start <= lower /\ upper <= end /\ lower = upper

\* the node [lower, upper] lies inside [start, end]
SplitCovered(start, end, lower, upper) == start <= lower /\ upper <= end

\* mid = (lower+upper)/2, Python 2 integer division
SplitMid(lower, upper) == (lower + upper) \div 2

\* SplitLeft with the comparison made strict
SplitLeft_Strict(start, mid) == start < mid

\* the interval reaches into the left child [lower, mid]
SplitLeft(start, mid) == start <= mid

\* the interval reaches into the right child [mid+1, upper]
SplitRight(end, mid) == end > mid

RECURSIVE _split_interval(_, _, _, _)
_split_interval(start, end, lower, upper) ==
    IF SplitCovered(start, end, lower, upper)
        THEN << << lower, upper >> >>
        ELSE LET mid == SplitMid(lower, upper)
             IN  (IF SplitLeft(start, mid)
                     THEN _split_interval(start, end, lower, mid)
                     ELSE << >>)
                 \o
                 (IF SplitRight(end, mid)
                     THEN _split_interval(start, end, mid + 1, upper)
                     ELSE << >>)

Range(s) == { s[i] : i \in 1..Len(s) }

RECURSIVE TreeNodes(_, _)
\* the nodes the bisection of [lower, upper] reaches: the node and, below a
\* node of more than one point, the nodes of [lower, mid] and [mid+1, upper]
TreeNodes(lower, upper) ==
    { << lower, upper >> } \cup
    (IF lower < upper
        THEN TreeNodes(lower, SplitMid(lower, upper)) \cup
             TreeNodes(SplitMid(lower, upper) + 1, upper)
        ELSE {})

\* the bisection tree rooted at [0, max_endpoint]
Tree == TreeNodes(0, max_endpoint)

(* ------------------------------ the store ------------------------------ *)
\* a write batch is a sequence of staged operations
BatchPut(k, v) == [op |-> "put", key |-> k, value |-> v]
BatchDelete(k) == [op |-> "delete", key |-> k, value |-> << >>]

RECURSIVE BatchWrite(_, _)
\* WriteBatch.write(): the staged operations applied in order, as one unit
BatchWrite(d, batch) ==
    IF batch = << >> THEN d
    ELSE LET b == Head(batch)
             d1 == IF b.op = "put"
                      THEN [k \in (DOMAIN d) \cup {b.key} |->
                               IF k = b.key THEN b.value ELSE d[k]]
                      ELSE [k \in (DOMAIN d) \ {b.key} |-> d[k]]
         IN  BatchWrite(d1, Tail(batch))

RECURSIVE SortKeys(_)
\* the keys of S in ascending byte order
SortKeys(S) ==
    IF S = {} THEN << >>
    ELSE LET m == CHOOSE x \in S : \A y \in S : y = x \/ BytesLess(x, y)
         IN  << m >> \o SortKeys(S \ {m})

Reverse(s) == [i \in 1..Len(s) |-> s[Len(s) + 1 - i]]

\* DB.iterator(start, stop, reverse, include_start, include_stop): the keys
\* of the range in iteration order
Iterator(d, start, stop, reverse, include_start, include_stop) ==
    LET inRange(k) ==
            /\ \/ BytesLess(start, k)
               \/ include_start /\ k = start
            /\ \/ BytesLess(k, stop)
               \/ include_stop /\ k = stop
        asc == SortKeys({ k \in DOMAIN d : inRange(k) })
    IN  IF reverse THEN Reverse(asc) ELSE asc

(* ----------------------------- put / delete ---------------------------- *)
\* PutSegments with the loop starting one node late
PutSegments_SkipFirst(uuid_, start, end, level) ==
    LET si == _split_interval(start, end, 0, max_endpoint)
        value == PackQ(start) \o PackQ(end)
    IN  [i \in 1..(Len(si) - 1) |->
            BatchPut(_segment_key(si[i + 1][1], si[i + 1][2], uuid_, level), value)]

\* the segment-entry operations staged by the for loop of put
PutSegments(uuid_, start, end, level) ==
    LET si == _split_interval(start, end, 0, max_endpoint)
        value == PackQ(start) \o PackQ(end)
    IN  [i \in 1..Len(si) |->
            BatchPut(_segment_key(si[i][1], si[i][2], uuid_, level), value)]

\* PutBatch with the END marker written with the type of the START marker
PutBatch_EndAsStart(uuid_, start, end, level) ==
    PutSegments(uuid_, start, end, level) \o
    << BatchPut(_endpoint_key(start, level, TYPE_START, uuid_), << 0 >>),
       BatchPut(_endpoint_key(end, level, TYPE_START, uuid_), << 0 >>) >>

\* the whole batch staged by put
PutBatch(uuid_, start, end, level) ==
    PutSegments(uuid_, start, end, level) \o
    << BatchPut(_endpoint_key(start, level, TYPE_START, uuid_), << 0 >>),
       BatchPut(_endpoint_key(end, level, TYPE_END, uuid_), << 0 >>) >>

\* the segment-entry operations staged by the for loop of delete
DeleteSegments(uuid_, start, end, level) ==
    LET si == _split_interval(start, end, 0, max_endpoint)
    IN  [i \in 1..Len(si) |->
            BatchDelete(_segment_key(si[i][1], si[i][2], uuid_, level))]

\* DeleteBatch without the delete of the END marker
DeleteBatch_KeepsEnd(uuid_, start, end, level) ==
    DeleteSegments(uuid_, start, end, level) \o
    << BatchDelete(_endpoint_key(start, level, TYPE_START, uuid_)) >>

\* the whole batch staged by delete
DeleteBatch(uuid_, start, end, level) ==
    DeleteSegments(uuid_, start, end, level) \o
    << BatchDelete(_endpoint_key(start, level, TYPE_START, uuid_)),
       BatchDelete(_endpoint_key(end, level, TYPE_END, uuid_)) >>

\* put and delete raise struct.error when a field does not fit its format
PackOk(start, end, level) == QOk(start) /\ QOk(end) /\ BOk(level)

(* -------------------------------- cover -------------------------------- *)
\* CoverScan with the stop key built from MAX_LEVEL instead of MAX_LEVEL + 1
CoverScan_StopAtMaxLevel(d, lower, upper) ==
    LET ks == _segment_key(lower, upper, NoneUuid, NoneLevel)
        ke == _segment_key(lower, upper, NoneUuid, MAX_LEVEL)
        it == Iterator(d, ks, ke, TRUE, FALSE, FALSE)
    IN  [i \in 1..Len(it) |->
            LET sk == _split_segment_key(it[i])
                v == d[it[i]]
            IN  << sk[4], sk[3], UnpackQ(SubSeq(v, 1, 8)),
                   UnpackQ(SubSeq(v, 9, 16)) >>]

\* the tuples yielded by the for loop of cover at the node [lower, upper]
CoverScan(d, lower, upper) ==
    LET ks == _segment_key(lower, upper, NoneUuid, NoneLevel)
        ke == _segment_key(lower, upper, NoneUuid, MAX_LEVEL + 1)
        it == Iterator(d, ks, ke, TRUE, FALSE, FALSE)
    IN  [i \in 1..Len(it) |->
            LET sk == _split_segment_key(it[i])
                v == d[it[i]]
            IN  << sk[4], sk[3], UnpackQ(SubSeq(v, 1, 8)),
                   UnpackQ(SubSeq(v, 9, 16)) >>]

RECURSIVE CoverLoop_StrictMid(_, _, _, _)
\* CoverLoop with the descent going left only when value < mid
CoverLoop_StrictMid(d, value, lower0, upper0) ==
    LET mid == (lower0 + upper0) \div 2
        upper == IF value < mid THEN mid ELSE upper0
        lower == IF value < mid THEN lower0 ELSE mid + 1
    IN  CoverScan(d, lower, upper) \o
        (IF lower = upper THEN << >> ELSE CoverLoop_StrictMid(d, value, lower, upper))

RECURSIVE CoverLoop(_, _, _, _)
\* one iteration of the while loop of cover and all that follow it
CoverLoop(d, value, lower0, upper0) ==
    LET mid == (lower0 + upper0) \div 2
        upper == IF value <= mid THEN mid ELSE upper0
        lower == IF value <= mid THEN lower0 ELSE mid + 1
    IN  CoverScan(d, lower, upper) \o
        (IF lower = upper THEN << >> ELSE CoverLoop(d, value, lower, upper))

\* cover with the loop started at upper = max_endpoint
cover_UpperMax(d, value) == CoverLoop(d, value, 0, max_endpoint)

\* the sequence of (uuid_, level, start, end) yielded by cover(value)
cover(d, value) == CoverLoop(d, value, 0, max_endpoint * 2)

(* --------------------------- query_endpoints --------------------------- *)
\* Python's None for the optional start and stop arguments of query_endpoints
NoneEndpoint == -1

\* query_endpoints with the stop key built without the level sentinel
query_endpoints_StopNoLevel(d, start, stop, reverse, include_start, include_stop) ==
    LET ks == IF start = NoneEndpoint
                 THEN _endpoint_key(0, NoneLevel, NoneLevel, NoneUuid)
                 ELSE _endpoint_key(start, NoneLevel, NoneLevel, NoneUuid)
        ke == IF stop = NoneEndpoint
                 THEN _endpoint_key(max_endpoint, NoneLevel, NoneLevel, NoneUuid)
                 ELSE _endpoint_key(stop, NoneLevel, NoneLevel, NoneUuid)
        di == Iterator(d, ks, ke, reverse, include_start, include_stop)
    IN  [i \in 1..Len(di) |-> _split_endpoint_key(di[i])]

\* the sequence of (endpoint, level, type_ == TYPE_START, uuid_) yielded by
\* query_endpoints(start, stop, reverse, include_start, include_stop)
query_endpoints(d, start, stop, reverse, include_start, include_stop) ==
    LET ks == IF start = NoneEndpoint
                 THEN _endpoint_key(0, NoneLevel, NoneLevel, NoneUuid)
                 ELSE _endpoint_key(start, NoneLevel, NoneLevel, NoneUuid)
        ke == IF stop = NoneEndpoint
                 THEN _endpoint_key(max_endpoint, MAX_LEVEL + 1, NoneLevel, NoneUuid)
                 ELSE _endpoint_key(stop, MAX_LEVEL + 1, NoneLevel, NoneUuid)
        di == Iterator(d, ks, ke, reverse, include_start, include_stop)
    IN  [i \in 1..Len(di) |-> _split_endpoint_key(di[i])]

(* ------------------------------- state --------------------------------- *)
VARIABLES
    db,        \* self.db: the store, a map from key to value
    live,      \* the tuples put and not deleted since
    collided,  \* a call named the owner and level of a live interval of another range
    nops,      \* number of calls made
    err,       \* outcome of the last call
    rt,        \* an insert that is deleted right away: its tuple and the keys before it
    sargs,     \* (start, end) of the _split_interval call in progress
    stk,       \* its call stack, the innermost frame last
    sres,      \* the nodes returned so far
    wr,        \* a put or delete call that runs statement by statement
    cv,        \* a cover call that runs one loop iteration at a time
    co,        \* what that call has yielded and the store states it lived through
    kc         \* two keys of one kind on their way through the key codec

splitVars == << sargs, stk, sres >>
auxVars == << cv, co, kc >>
vars == << db, live, collided, nops, err, rt, sargs, stk, sres, wr, cv, co, kc >>

\* the owners (uuid_ byte strings) "A" and "B"
Owners == { << 65 >>, << 66 >> }
Levels == { 0, MAX_LEVEL }
Points == 0..max_endpoint

\* (uuid_, start, end, level) with 0 <= start <= end <= max_endpoint
ValidTuples ==
    { t \in Owners \X Points \X Points \X Levels : t[2] <= t[3] }

\* arguments of every kind: ranges that are reversed or leave [0, max_endpoint],
\* the sentinel level and a level that does not fit a byte
AnyLevels == { 0, MAX_LEVEL + 1, MAX_LEVEL + 2 }
AnyPoints == 0..(max_endpoint + 1)
AnyTuples == Owners \X AnyPoints \X AnyPoints \X AnyLevels

ValidRange(start, end) == 0 <= start /\ start <= end /\ end <= max_endpoint

RtIdle == [phase |-> "idle", t |-> << >>, keys |-> {}, fresh |-> FALSE]

WrIdle ==
    [pc |-> "idle", op |-> "none", t |-> << >>, si |-> << >>, i |-> 1,
     batch |-> << >>, pre |-> << >>]

\* no cover call in progress
CvIdle ==
    [pc |-> "idle", value |-> 0, lower |-> 0, upper |-> 0, scanned |-> << >>]

\* nothing yielded
CoIdle == [out |-> << >>, seen |-> {}]

\* no key in the codec
KcIdle ==
    [pc |-> "idle", dom |-> "none", a |-> << >>, b |-> << >>,
     ka |-> << >>, kb |-> << >>, da |-> << >>, db |-> << >>]

\* the store after construction, no call in progress
InitStore ==
    /\ db = << >>
    /\ live = {}
    /\ collided = FALSE
    /\ nops = 0
    /\ err = "none"
    /\ rt = RtIdle
    /\ wr = WrIdle
    /\ cv = CvIdle
    /\ co = CoIdle

Init ==
    /\ InitStore
    /\ kc = KcIdle
    /\ sargs = << 0, 0 >>
    /\ stk = << >>
    /\ sres = << >>

\* a live interval of the same owner and level and another range
Collides(uuid_, start, end, level) ==
    \E t \in live : t[1] = uuid_ /\ t[4] = level /\ (t[2] # start \/ t[3] # end)

\* the effect of one put call on the store
PutCall(uuid_, start, end, level) ==
    IF PackOk(start, end, level)
        THEN /\ db' = BatchWrite(db, PutBatch(uuid_, start, end, level))
             /\ live' = live \cup { << uuid_, start, end, level >> }
             /\ collided' = (collided \/ Collides(uuid_, start, end, level))
             /\ err' = "ok"
        ELSE /\ err' = "struct.error"
             /\ UNCHANGED << db, live, collided >>

\* the effect of one delete call on the store
DeleteCall(uuid_, start, end, level) ==
    IF PackOk(start, end, level)
        THEN /\ db' = BatchWrite(db, DeleteBatch(uuid_, start, end, level))
             /\ live' = live \ { << uuid_, start, end, level >> }
             /\ collided' = (collided \/ Collides(uuid_, start, end, level))
             /\ err' = "ok"
        ELSE /\ err' = "struct.error"
             /\ UNCHANGED << db, live, collided >>

put(uuid_, start, end, level) ==
    /\ nops < MaxOps
    /\ rt.phase = "idle"
    /\ nops' = nops + 1
    /\ PutCall(uuid_, start, end, level)
    /\ UNCHANGED << rt, splitVars, wr, auxVars >>

delete(uuid_, start, end, level) ==
    /\ nops < MaxOps
    /\ rt.phase = "idle"
    /\ nops' = nops + 1
    /\ DeleteCall(uuid_, start, end, level)
    /\ UNCHANGED << rt, splitVars, wr, auxVars >>

Next ==
    \/ \E t \in ValidTuples : put(t[1], t[2], t[3], t[4])
    \/ \E t \in ValidTuples : delete(t[1], t[2], t[3], t[4])

\* calls with valid arguments
Spec == Init /\ [][Next]_vars

NextAny ==
    \/ \E t \in AnyTuples : put(t[1], t[2], t[3], t[4])
    \/ \E t \in AnyTuples : delete(t[1], t[2], t[3], t[4])

\* calls with arguments of every kind
SpecAny == Init /\ [][NextAny]_vars

\* the keys a put of the tuple writes
KeysOf(uuid_, start, end, level) ==
    { b.key : b \in Range(PutBatch(uuid_, start, end, level)) }

\* a put whose tuple is deleted by the next call
RoundTripPut(uuid_, start, end, level) ==
    /\ rt.phase = "idle"
    /\ PutCall(uuid_, start, end, level)
    /\ rt' = [phase |-> "put", t |-> << uuid_, start, end, level >>,
              keys |-> DOMAIN db,
              fresh |-> (KeysOf(uuid_, start, end, level) \cap DOMAIN db = {})]
    /\ UNCHANGED << nops, splitVars, wr, auxVars >>

RoundTripDelete ==
    /\ rt.phase = "put"
    /\ DeleteCall(rt.t[1], rt.t[2], rt.t[3], rt.t[4])
    /\ rt' = [rt EXCEPT !.phase = "done"]
    /\ UNCHANGED << nops, splitVars, wr, auxVars >>

NextRT ==
    \/ Next
    \/ \E t \in ValidTuples : RoundTripPut(t[1], t[2], t[3], t[4])
    \/ RoundTripDelete

\* calls with valid arguments, closed by an insert and the delete of its tuple
SpecRT == Init /\ [][NextRT]_vars

(* ------------------- _split_interval, call by call --------------------- *)
\* frames a call stack holds at most
MaxDepth == epsize + 3

\* start and end of every kind, up to two past max_endpoint
SplitPoints == 0..(max_endpoint + 2)
SplitInputs == SplitPoints \X SplitPoints

Frame(lower, upper, pc) == [lower |-> lower, upper |-> upper, pc |-> pc]

\* put and delete call _split_interval(start, end, 0, self.max_endpoint)
InitSplit ==
    /\ InitStore
    /\ kc = KcIdle
    /\ sargs \in SplitInputs
    /\ stk = << Frame(0, max_endpoint, "test") >>
    /\ sres = << >>

Top == stk[Len(stk)]
Pop == SubSeq(stk, 1, Len(stk) - 1)
SetPc(pc) == [stk EXCEPT ![Len(stk)].pc = pc]

\* if start <= lower and upper <= end: return [(lower, upper)]
SplitTest ==
    /\ stk # << >>
    /\ Top.pc = "test"
    /\ IF SplitCovered(sargs[1], sargs[2], Top.lower, Top.upper)
          THEN /\ sres' = Append(sres, << Top.lower, Top.upper >>)
               /\ stk' = Pop
          ELSE /\ stk' = SetPc("left")
               /\ UNCHANGED sres
    /\ UNCHANGED << db, live, collided, nops, err, rt, sargs, wr, auxVars >>

\* if start <= mid: result += self._split_interval(start, end, lower, mid)
SplitGoLeft ==
    /\ stk # << >>
    /\ Top.pc = "left"
    /\ LET mid == SplitMid(Top.lower, Top.upper)
       IN  IF SplitLeft(sargs[1], mid)
              THEN /\ Len(stk) < MaxDepth
                   /\ stk' = Append(SetPc("right"), Frame(Top.lower, mid, "test"))
              ELSE stk' = SetPc("right")
    /\ UNCHANGED << db, live, collided, nops, err, rt, sargs, sres, wr, auxVars >>

\* if end > mid: result += self._split_interval(start, end, mid+1, upper)
SplitGoRight ==
    /\ stk # << >>
    /\ Top.pc = "right"
    /\ LET mid == SplitMid(Top.lower, Top.upper)
       IN  IF SplitRight(sargs[2], mid)
              THEN /\ Len(stk) < MaxDepth
                   /\ stk' = Append(SetPc("return"), Frame(mid + 1, Top.upper, "test"))
              ELSE stk' = SetPc("return")
    /\ UNCHANGED << db, live, collided, nops, err, rt, sargs, sres, wr, auxVars >>

\* return result
SplitReturn ==
    /\ stk # << >>
    /\ Top.pc = "return"
    /\ stk' = Pop
    /\ UNCHANGED << db, live, collided, nops, err, rt, sargs, sres, wr, auxVars >>

NextSplit == SplitTest \/ SplitGoLeft \/ SplitGoRight \/ SplitReturn

\* one call of _split_interval over [0, max_endpoint] for every (start, end)
SpecSplit == InitSplit /\ [][NextSplit]_vars

(* ------------------ put and delete, statement by statement ------------- *)
\* start -1 and a level that does not fit a byte make the key codec raise
BatchStarts == { -1 } \cup Points
BatchLevels == { 0, MAX_LEVEL + 2 }
BatchTuples == Owners \X BatchStarts \X Points \X BatchLevels

\* StagedDb with the operation written straight to the store
StagedDb_WriteThrough(d, b) == BatchWrite(d, << b >>)

\* the store while an operation is staged: batch.put and batch.delete collect
\* the operation in the batch and leave the store alone
StagedDb(d, b) == d

WrFree == wr.pc \in { "idle", "done", "failed" }

\* si = self._split_interval(...); value = struct.pack(">QQ", start, end);
\* batch = self.db.write_batch()
BeginPut(uuid_, start, end, level) ==
    /\ WrFree
    /\ nops < MaxOps
    /\ nops' = nops + 1
    /\ LET si == _split_interval(start, end, 0, max_endpoint)
           w == [pc |-> "segments", op |-> "put",
                 t |-> << uuid_, start, end, level >>, si |-> si, i |-> 1,
                 batch |-> << >>, pre |-> db]
       IN  IF QOk(start) /\ QOk(end)
              THEN /\ wr' = [w EXCEPT !.pc = IF si = << >> THEN "ks" ELSE "segments"]
                   /\ UNCHANGED err
              ELSE /\ wr' = [w EXCEPT !.pc = "failed"]
                   /\ err' = "struct.error"
    /\ UNCHANGED << db, live, collided, rt, splitVars, auxVars >>

\* batch = self.db.write_batch(); si = self._split_interval(...)
BeginDelete(uuid_, start, end, level) ==
    /\ WrFree
    /\ nops < MaxOps
    /\ nops' = nops + 1
    /\ LET si == _split_interval(start, end, 0, max_endpoint)
       IN  wr' = [pc |-> IF si = << >> THEN "ks" ELSE "segments", op |-> "delete",
                  t |-> << uuid_, start, end, level >>, si |-> si, i |-> 1,
                  batch |-> << >>, pre |-> db]
    /\ UNCHANGED << db, live, collided, err, rt, splitVars, auxVars >>

\* the operation a call stages for the key k
StagedOp(k) ==
    IF wr.op = "put"
        THEN BatchPut(k, IF k[1] = 1 THEN PackQ(wr.t[2]) \o PackQ(wr.t[3]) ELSE << 0 >>)
        ELSE BatchDelete(k)

\* the call raises: the batch is dropped unwritten
Raise(e) ==
    /\ wr' = [wr EXCEPT !.pc = "failed"]
    /\ err' = e
    /\ UNCHANGED db

\* one turn of "for i in si": k = self._segment_key(...); batch.put / batch.delete
StageSegment ==
    /\ wr.pc = "segments"
    /\ IF BOk(wr.t[4])
          THEN LET n == wr.si[wr.i]
                   b == StagedOp(_segment_key(n[1], n[2], wr.t[1], wr.t[4]))
               IN  /\ wr' = [wr EXCEPT !.batch = Append(@, b), !.i = @ + 1,
                                       !.pc = IF wr.i = Len(wr.si) THEN "ks" ELSE @]
                   /\ db' = StagedDb(db, b)
                   /\ UNCHANGED err
          ELSE Raise("struct.error")
    /\ UNCHANGED << live, collided, nops, rt, splitVars, auxVars >>

\* ks = self._endpoint_key(start, ...); batch.put(ks, "\x00") / batch.delete(ks)
StageStart ==
    /\ wr.pc = "ks"
    /\ IF QOk(wr.t[2]) /\ BOk(wr.t[4])
          THEN LET b == StagedOp(_endpoint_key(wr.t[2], wr.t[4], TYPE_START, wr.t[1]))
               IN  /\ wr' = [wr EXCEPT !.batch = Append(@, b), !.pc = "ke"]
                   /\ db' = StagedDb(db, b)
                   /\ UNCHANGED err
          ELSE Raise("struct.error")
    /\ UNCHANGED << live, collided, nops, rt, splitVars, auxVars >>

\* ke = self._endpoint_key(end, ...); batch.put(ke, "\x00") / batch.delete(ke)
StageEnd ==
    /\ wr.pc = "ke"
    /\ IF QOk(wr.t[3]) /\ BOk(wr.t[4])
          THEN LET b == StagedOp(_endpoint_key(wr.t[3], wr.t[4], TYPE_END, wr.t[1]))
               IN  /\ wr' = [wr EXCEPT !.batch = Append(@, b), !.pc = "write"]
                   /\ db' = StagedDb(db, b)
                   /\ UNCHANGED err
          ELSE Raise("struct.error")
    /\ UNCHANGED << live, collided, nops, rt, splitVars, auxVars >>

\* batch.write() commits the batch
Write ==
    /\ wr.pc = "write"
    /\ db' = BatchWrite(db, wr.batch)
    /\ live' = IF wr.op = "put" THEN live \cup { wr.t } ELSE live \ { wr.t }
    /\ collided' = (collided \/ Collides(wr.t[1], wr.t[2], wr.t[3], wr.t[4]))
    /\ err' = "ok"
    /\ wr' = [wr EXCEPT !.pc = "done"]
    /\ UNCHANGED << nops, rt, splitVars, auxVars >>

\* batch.write() raises: the store refuses the batch as a whole
WriteFails ==
    /\ wr.pc = "write"
    /\ wr' = [wr EXCEPT !.pc = "failed"]
    /\ err' = "StoreFailure"
    /\ UNCHANGED << db, live, collided, nops, rt, splitVars, auxVars >>

NextBatch ==
    \/ \E t \in BatchTuples : BeginPut(t[1], t[2], t[3], t[4])
    \/ \E t \in BatchTuples : BeginDelete(t[1], t[2], t[3], t[4])
    \/ StageSegment
    \/ StageStart
    \/ StageEnd
    \/ Write
    \/ WriteFails

\* put and delete calls observed between their statements
SpecBatch == Init /\ [][NextBatch]_vars

(* ----------------------- the key codec, call by call ------------------- *)
\* numbers of one byte and of two, owners of one byte and of two
CodecNumbers == { 0, 1, 256 }
CodecLevels == { 0, MAX_LEVEL }
CodecOwners == { << 65 >>, << 65, 66 >>, << 66 >> }

\* the fields (start, end, level, uuid_) of a full segment key
SegmentFields == CodecNumbers \X CodecNumbers \X CodecLevels \X CodecOwners

\* the fields (endpoint, level, type_, uuid_) of a full endpoint key
EndpointFields == CodecNumbers \X CodecLevels \X { TYPE_START, TYPE_END } \X CodecOwners

\* two sets of fields of one kind wait to be encoded
InitCodec ==
    /\ InitStore
    /\ sargs = << 0, 0 >>
    /\ stk = << >>
    /\ sres = << >>
    /\ \E dom \in { "segment", "endpoint" } :
       \E a, b \in (IF dom = "segment" THEN SegmentFields ELSE EndpointFields) :
           kc = [KcIdle EXCEPT !.pc = "fields", !.dom = dom, !.a = a, !.b = b]

\* ka = self._segment_key(start, end, uuid_=uuid_, level=level), and kb
EncodeSegment ==
    /\ kc.pc = "fields"
    /\ kc.dom = "segment"
    /\ kc' = [kc EXCEPT !.pc = "encoded",
                        !.ka = _segment_key(kc.a[1], kc.a[2], kc.a[4], kc.a[3]),
                        !.kb = _segment_key(kc.b[1], kc.b[2], kc.b[4], kc.b[3])]
    /\ UNCHANGED << db, live, collided, nops, err, rt, splitVars, wr, cv, co >>

\* ka = self._endpoint_key(endpoint, level=level, type_=type_, uuid_=uuid_), and kb
EncodeEndpoint ==
    /\ kc.pc = "fields"
    /\ kc.dom = "endpoint"
    /\ kc' = [kc EXCEPT !.pc = "encoded",
                        !.ka = _endpoint_key(kc.a[1], kc.a[2], kc.a[3], kc.a[4]),
                        !.kb = _endpoint_key(kc.b[1], kc.b[2], kc.b[3], kc.b[4])]
    /\ UNCHANGED << db, live, collided, nops, err, rt, splitVars, wr, cv, co >>

\* da = self._split_segment_key(ka), and db
SplitSegment ==
    /\ kc.pc = "encoded"
    /\ kc.dom = "segment"
    /\ kc' = [kc EXCEPT !.pc = "decoded",
                        !.da = _split_segment_key(kc.ka),
                        !.db = _split_segment_key(kc.kb)]
    /\ UNCHANGED << db, live, collided, nops, err, rt, splitVars, wr, cv, co >>

\* da = self._split_endpoint_key(ka), and db
SplitEndpoint ==
    /\ kc.pc = "encoded"
    /\ kc.dom = "endpoint"
    /\ kc' = [kc EXCEPT !.pc = "decoded",
                        !.da = _split_endpoint_key(kc.ka),
                        !.db = _split_endpoint_key(kc.kb)]
    /\ UNCHANGED << db, live, collided, nops, err, rt, splitVars, wr, cv, co >>

NextCodec ==
    \/ EncodeSegment
    \/ EncodeEndpoint
    \/ SplitSegment
    \/ SplitEndpoint

\* encoding and decoding of two keys of one kind
SpecCodec == InitCodec /\ [][NextCodec]_vars

(* ----------------------- cover, one node at a time --------------------- *)
\* the values asked for: every point, one below 0, one above max_endpoint,
\* the initial upper bound and one above it
CoverValues == (-1..(max_endpoint + 1)) \cup { max_endpoint * 2, max_endpoint * 2 + 1 }

\* the tuples other callers put and delete while a cover call runs
CoverTuples == { t \in ValidTuples : t[4] = 0 }

\* CoverRoot with upper = self.max_endpoint
CoverRoot_Max == << 0, max_endpoint >>

\* lower = 0; upper = self.max_endpoint*2
CoverRoot == << 0, max_endpoint * 2 >>

\* CoverNarrow that sends value = mid to the right
CoverNarrow_Strict(value, lower, upper) ==
    LET mid == (lower + upper) \div 2
    IN  IF value < mid THEN << lower, mid >> ELSE << mid + 1, upper >>

\* mid = (lower+upper)/2; if value <= mid: upper = mid, else: lower = mid+1
CoverNarrow(value, lower, upper) ==
    LET mid == (lower + upper) \div 2
    IN  IF value <= mid THEN << lower, mid >> ELSE << mid + 1, upper >>

\* CoverDone that stops one level above the leaf
CoverDone_Early(lower, upper) == upper - lower <= 1

\* if lower == upper: break
CoverDone(lower, upper) == lower = upper

\* what cover(p) is to yield for the intervals of lv that contain p
LiveContaining(lv, p) ==
    { << t[1], t[4], t[2], t[3] >> : t \in { u \in lv : u[2] <= p /\ p <= u[3] } }

\* the first next() on the generator cover(value)
CoverBegin(value) ==
    /\ cv.pc = "idle"
    /\ cv' = [pc |-> "loop", value |-> value,
              lower |-> CoverRoot[1], upper |-> CoverRoot[2], scanned |-> << >>]
    /\ co' = [out |-> << >>, seen |-> { LiveContaining(live, value) }]
    /\ UNCHANGED << db, live, collided, nops, err, rt, splitVars, wr, kc >>

\* the control of one turn of "while True": narrow to a child, test for a leaf
CoverTurn ==
    /\ cv.pc = "loop"
    /\ LET n == CoverNarrow(cv.value, cv.lower, cv.upper)
       IN  cv' = [cv EXCEPT !.lower = n[1], !.upper = n[2],
                            !.scanned = Append(@, n),
                            !.pc = IF CoverDone(n[1], n[2]) THEN "done" ELSE "loop"]

\* one turn of "while True": narrow, scan the node with a new iterator, test
CoverStep ==
    /\ CoverTurn
    /\ co' = [co EXCEPT !.out = @ \o CoverScan(db, cv'.lower, cv'.upper)]
    /\ UNCHANGED << db, live, collided, nops, err, rt, splitVars, wr, kc >>

\* the store state a committed batch leaves is one the running call lives through
CoverObserve ==
    co' = IF cv.pc = "loop"
             THEN [co EXCEPT !.seen = @ \cup { LiveContaining(live', cv.value) }]
             ELSE co

\* a put of another caller, before the call or between two of its turns
CoverPut(uuid_, start, end, level) ==
    /\ nops < MaxOps
    /\ cv.pc # "done"
    /\ nops' = nops + 1
    /\ PutCall(uuid_, start, end, level)
    /\ CoverObserve
    /\ UNCHANGED << rt, splitVars, wr, cv, kc >>

\* a delete of another caller, before the call or between two of its turns
CoverDelete(uuid_, start, end, level) ==
    /\ nops < MaxOps
    /\ cv.pc # "done"
    /\ nops' = nops + 1
    /\ DeleteCall(uuid_, start, end, level)
    /\ CoverObserve
    /\ UNCHANGED << rt, splitVars, wr, cv, kc >>

NextCover ==
    \/ \E value \in CoverValues : CoverBegin(value)
    \/ CoverStep
    \/ \E t \in CoverTuples : CoverPut(t[1], t[2], t[3], t[4])
    \/ \E t \in CoverTuples : CoverDelete(t[1], t[2], t[3], t[4])

\* one cover call among the puts and deletes of other callers
SpecCover == Init /\ [][NextCover]_vars

\* the same, with a caller that keeps consuming the generator
SpecCoverLive == Init /\ [][NextCover]_vars /\ WF_cv(CoverTurn)

(* ------------------------------ claims --------------------------------- *)
\* the set of tuples yielded by cover(p)
Yields(p) == Range(cover(db, p))

\* what cover(p) yields for the live intervals that contain p
LiveAt(p) ==
    { << t[1], t[4], t[2], t[3] >> : t \in { u \in live : u[2] <= p /\ p <= u[3] } }

\* the nodes of the segment entries of (level, uuid_) whose value is (start, end)
EntriesOf(uuid_, start, end, level) ==
    { << sk[1], sk[2] >> : sk \in
        { _split_segment_key(k) : k \in
            { x \in DOMAIN db :
                /\ x[1] = 1
                /\ _split_segment_key(x)[3] = level
                /\ _split_segment_key(x)[4] = uuid_
                /\ db[x] = PackQ(start) \o PackQ(end) } } }

\* the boundary markers of (level, uuid_) in the store
MarkersOf(uuid_, level) ==
    { k \in DOMAIN db :
        /\ k[1] = 2
        /\ _split_endpoint_key(k)[2] = level
        /\ _split_endpoint_key(k)[4] = uuid_ }

\* C1 as stated: for every point p, cover(p) yields (owner, level, start, end)
\* exactly for the live intervals with start <= p <= end, whatever intervals
\* an owner and level were used with.
C1_Original == \A p \in Points : Yields(p) = LiveAt(p)

\* C1 amended: as long as no call named the owner and level of a live
\* interval of another range, cover(p) yields exactly the live intervals
\* that contain p.
C1_Stabbing == (~collided) => \A p \in Points : Yields(p) = LiveAt(p)

C1_Witness ==
    /\ ~collided
    /\ Cardinality(live) = 2
    /\ \E p \in Points : Cardinality(Yields(p)) = 2
    /\ \E p \in Points : Yields(p) = {}

\* C2 as stated: the segment entries of every live interval are exactly its
\* canonical decomposition.
C2_Original ==
    \A t \in live :
        EntriesOf(t[1], t[2], t[3], t[4]) =
            Range(_split_interval(t[2], t[3], 0, max_endpoint))

\* C2 amended: as long as no call named the owner and level of a live
\* interval of another range, the segment entries of every live interval are
\* exactly its canonical decomposition, and the owner and level have no
\* other entry.
C2_Decomposed ==
    (~collided) =>
        \A t \in live :
            /\ EntriesOf(t[1], t[2], t[3], t[4]) =
                   Range(_split_interval(t[2], t[3], 0, max_endpoint))
            /\ \A k \in DOMAIN db :
                   (/\ k[1] = 1
                    /\ _split_segment_key(k)[3] = t[4]
                    /\ _split_segment_key(k)[4] = t[1])
                   => db[k] = PackQ(t[2]) \o PackQ(t[3])

C2_Witness ==
    /\ ~collided
    /\ \E t \in live : Cardinality(EntriesOf(t[1], t[2], t[3], t[4])) >= 2
    /\ nops = MaxOps

\* C3 as stated: the START and the END marker of every live interval are in
\* the store.
C3_Original ==
    \A t \in live :
        /\ _endpoint_key(t[2], t[4], TYPE_START, t[1]) \in DOMAIN db
        /\ _endpoint_key(t[3], t[4], TYPE_END, t[1]) \in DOMAIN db

\* C3 amended: as long as no call named the owner and level of a live
\* interval of another range, the markers of the owner and level of a live
\* interval are exactly its START and its END marker.
C3_Markers ==
    (~collided) =>
        \A t \in live :
            /\ MarkersOf(t[1], t[4]) =
                   { _endpoint_key(t[2], t[4], TYPE_START, t[1]),
                     _endpoint_key(t[3], t[4], TYPE_END, t[1]) }
            /\ Cardinality(MarkersOf(t[1], t[4])) = 2

C3_Witness ==
    /\ ~collided
    /\ err = "ok"
    /\ nops = MaxOps
    /\ Cardinality(live) = 1
    /\ \E t \in live : t[2] = t[3]

\* no tuple occurs twice in the sequence s
NoDuplicates(s) == \A i, j \in 1..Len(s) : s[i] = s[j] => i = j

\* the live intervals have pairwise distinct owners
DistinctOwners == \A t, u \in live : t[1] = u[1] => t = u

LevelOf(k) == IF k[1] = 1 THEN _split_segment_key(k)[3] ELSE _split_endpoint_key(k)[2]

\* C4 as stated: an insert followed at once by the delete of the same tuple
\* leaves the key set of the store as it was before the insert, for every
\* valid tuple.
C4_Original == (rt.phase = "done") => DOMAIN db = rt.keys

\* C4 amended: when none of the keys of the tuple is in the store before the
\* insert, an insert followed at once by the delete of the same tuple leaves
\* the key set of the store as it was before the insert.
C4_RoundTrip == (rt.phase = "done" /\ rt.fresh) => DOMAIN db = rt.keys

C4_Witness ==
    /\ rt.phase = "done"
    /\ rt.fresh
    /\ rt.keys # {}
    /\ DOMAIN db = rt.keys
    /\ \E t \in live : t[1] = rt.t[1]

\* C5 as stated: a put whose range is reversed or leaves [0, max_endpoint]
\* fails with OutOfRange and leaves the store unchanged.
C5_Original ==
    [][\A t \in AnyTuples :
          (~ValidRange(t[2], t[3]) /\ BOk(t[4]) /\ put(t[1], t[2], t[3], t[4]))
              => (db' = db /\ err' = "OutOfRange")]_vars

\* C8 as stated: no stored segment entry or boundary marker carries the
\* sentinel level MAX_LEVEL + 1.
C8_Original == \A k \in DOMAIN db : LevelOf(k) # MAX_LEVEL + 1

\* the integers of a node
NodePoints(n) == n[1]..n[2]

\* C6: for 0 <= start <= end <= max_endpoint the nodes returned by
\* _split_interval(start, end, 0, max_endpoint) are pairwise disjoint and
\* their union is the set of integers of [start, end]; the call run frame by
\* frame returns what the recursive definition returns.
C6_ExactCover ==
    (stk = << >> /\ ValidRange(sargs[1], sargs[2])) =>
        /\ \A i, j \in 1..Len(sres) :
               i # j => NodePoints(sres[i]) \cap NodePoints(sres[j]) = {}
        /\ UNION { NodePoints(sres[i]) : i \in 1..Len(sres) } = sargs[1]..sargs[2]
        /\ sres = _split_interval(sargs[1], sargs[2], 0, max_endpoint)

C6_Witness ==
    /\ stk = << >>
    /\ ValidRange(sargs[1], sargs[2])
    /\ Len(sres) >= 3
    /\ sargs[1] >= 1
    /\ sargs[2] < max_endpoint

\* everything the call in progress writes
WholeBatch ==
    IF wr.op = "put"
        THEN PutBatch(wr.t[1], wr.t[2], wr.t[3], wr.t[4])
        ELSE DeleteBatch(wr.t[1], wr.t[2], wr.t[3], wr.t[4])

\* C7: at every moment of a put or delete call the store is either as it was
\* before the call or holds the whole batch of the call; while the batch is
\* staged, and after a failure in staging or in the commit, it is as before.
C7_Atomic ==
    /\ (wr.pc \in { "segments", "ks", "ke", "write", "failed" }) => db = wr.pre
    /\ (wr.pc = "done") => db = BatchWrite(wr.pre, WholeBatch)

C7_Witness ==
    /\ wr.pc = "failed"
    /\ err = "struct.error"
    /\ Len(wr.batch) >= 2
    /\ db = wr.pre
    /\ DOMAIN db # {}
    /\ \E b \in Range(wr.batch) : b.key \in DOMAIN db

\* the markers of the store as query_endpoints decodes them
AllMarkers == { _split_endpoint_key(k) : k \in { x \in DOMAIN db : x[1] = 2 } }

\* C11 as stated: with include_start = false no marker at the value start is
\* returned, with include_stop = false no marker at the value stop is
\* returned, and with both flags true the markers at start and stop are.
C11_Original ==
    \A start, stop \in Points : \A reverse \in BOOLEAN :
        /\ \A y \in Range(query_endpoints(db, start, stop, reverse, FALSE, TRUE)) :
               y[1] # start
        /\ \A y \in Range(query_endpoints(db, start, stop, reverse, TRUE, FALSE)) :
               y[1] # stop
        /\ (start <= stop) =>
               \A m \in AllMarkers :
                   (m[1] = start \/ m[1] = stop) =>
                       m \in Range(query_endpoints(db, start, stop, reverse, TRUE, TRUE))

\* the values of the sequence q never fall (ascending) or never rise
Ordered(q, reverse) ==
    \A i \in 1..(Len(q) - 1) :
        IF reverse THEN q[i][1] >= q[i + 1][1] ELSE q[i][1] <= q[i + 1][1]

\* the arguments of query_endpoints, None included
QueryPoints == Points \cup { NoneEndpoint }

\* every call of query_endpoints yields its markers in the order of reverse
AlwaysOrdered ==
    \A start, stop \in QueryPoints : \A reverse, include_start, include_stop \in BOOLEAN :
        Ordered(query_endpoints(db, start, stop, reverse, include_start, include_stop),
                reverse)

\* the START and END marker of the live interval t, decoded
MarkersOfLive(t) == { << t[2], t[4], TRUE, t[1] >>, << t[3], t[4], FALSE, t[1] >> }

\* query_endpoints() yields the two markers of every live interval
AllLiveMarkers ==
    \A reverse \in BOOLEAN :
        \A t \in live :
            MarkersOfLive(t) \subseteq
                Range(query_endpoints(db, NoneEndpoint, NoneEndpoint, reverse, TRUE, TRUE))

\* C12 as stated: query_endpoints yields its markers in non-decreasing order
\* of value, non-increasing with reverse, and without arguments it yields the
\* START and the END marker of every live interval.
C12_Original == AlwaysOrdered /\ AllLiveMarkers

\* C12 amended: the order holds for every call; query_endpoints() yields the
\* START and the END marker of every live interval as long as no call named
\* the owner and level of a live interval of another range.
C12_Ordering == AlwaysOrdered /\ ((~collided) => AllLiveMarkers)

C12_Witness ==
    /\ ~collided
    /\ Cardinality(live) = 2
    /\ Len(query_endpoints(db, NoneEndpoint, NoneEndpoint, FALSE, TRUE, TRUE)) = 4
    /\ \E t \in live : t[3] = max_endpoint /\ t[4] = MAX_LEVEL
    /\ \E t, u \in live : t[2] < u[2]

\* C19: every stored segment entry with key bounds (l, u) holds a value (s, e)
\* with s <= l <= u <= e, and every tuple cover(p) yields for a point p of
\* [0, max_endpoint] has start <= p <= end.
C19_Sound ==
    /\ \A k \in { x \in DOMAIN db : x[1] = 1 } :
           LET sk == _split_segment_key(k)
               s == UnpackQ(SubSeq(db[k], 1, 8))
               e == UnpackQ(SubSeq(db[k], 9, 16))
           IN  s <= sk[1] /\ sk[1] <= sk[2] /\ sk[2] <= e
    /\ \A p \in Points : \A y \in Yields(p) : y[3] <= p /\ p <= y[4]

C19_Witness ==
    /\ collided
    /\ Cardinality(live) = 2
    /\ \E t \in live : \E p \in Points :
           /\ t[2] <= p /\ p <= t[3]
           /\ << t[1], t[4], t[2], t[3] >> \notin Yields(p)
           /\ Yields(p) # {}

\* C17 as stated: the recursion of _split_interval(start, end, 0, max_endpoint)
\* ends for all non-negative start and end and never enters a node with
\* lower > upper.  A call that enters the node of its caller never ends.
C17_Original ==
    /\ \A i \in 1..Len(stk) : stk[i].lower <= stk[i].upper
    /\ \A i \in 1..(Len(stk) - 1) :
           << stk[i].lower, stk[i].upper >> # << stk[i + 1].lower, stk[i + 1].upper >>

\* the tree nodes inside [start, end]
NodesInside(start, end) == { n \in Tree : start <= n[1] /\ n[2] <= end }

\* C18: for 0 <= start <= end <= max_endpoint no set of fewer tree nodes has
\* the union [start, end], the result never holds both children of a tree
\* node, and the nodes come in ascending order, each starting one past the
\* end of the node before it.
C18_Minimal ==
    (stk = << >> /\ ValidRange(sargs[1], sargs[2])) =>
        /\ Range(sres) \subseteq Tree
        /\ \A S \in SUBSET NodesInside(sargs[1], sargs[2]) :
               (UNION { NodePoints(n) : n \in S } = sargs[1]..sargs[2])
                   => Cardinality(S) >= Len(sres)
        /\ \A n \in Tree :
               (n[1] < n[2]) =>
                   ~ /\ << n[1], SplitMid(n[1], n[2]) >> \in Range(sres)
                     /\ << SplitMid(n[1], n[2]) + 1, n[2] >> \in Range(sres)
        /\ \A i \in 1..(Len(sres) - 1) : sres[i + 1][1] = sres[i][2] + 1

C18_Witness ==
    /\ stk = << >>
    /\ ValidRange(sargs[1], sargs[2])
    /\ Len(sres) >= 3
    /\ Cardinality(NodesInside(sargs[1], sargs[2])) > Len(sres)
    /\ \E i \in 1..Len(sres) : sres[i][1] < sres[i][2]

\* lexicographic order of two tuples of three numbers and a byte string
FieldsLess(x, y) ==
    \/ x[1] < y[1]
    \/ x[1] = y[1] /\ x[2] < y[2]
    \/ x[1] = y[1] /\ x[2] = y[2] /\ x[3] < y[3]
    \/ x[1] = y[1] /\ x[2] = y[2] /\ x[3] = y[3] /\ BytesLess(x[4], y[4])

\* a decoded tuple as Python compares it: the bool of an endpoint key counts
\* as the number 1 (True) or 0 (False)
AsCompared(dom, d) ==
    IF dom = "endpoint"
        THEN << d[1], d[2], IF d[3] THEN 1 ELSE 0, d[4] >>
        ELSE d

NodesContaining(value) == { n \in Tree : n[1] <= value /\ value <= n[2] }

\* C14: for value in [0, max_endpoint] the nodes cover(value) scans are the
\* tree nodes that contain value, each once, from the root [0, max_endpoint]
\* down to the leaf [value, value], every node a child of the one before it.
C14_Path ==
    (cv.pc # "idle" /\ cv.value \in Points) =>
        /\ Range(cv.scanned) \subseteq NodesContaining(cv.value)
        /\ (cv.scanned # << >>) => cv.scanned[1] = << 0, max_endpoint >>
        /\ \A i \in 1..(Len(cv.scanned) - 1) :
               LET n == cv.scanned[i]
                   m == cv.scanned[i + 1]
               IN  /\ n[1] < n[2]
                   /\ m \in { << n[1], SplitMid(n[1], n[2]) >>,
                              << SplitMid(n[1], n[2]) + 1, n[2] >> }
        /\ (cv.pc = "done") =>
               /\ Range(cv.scanned) = NodesContaining(cv.value)
               /\ cv.scanned[Len(cv.scanned)] = << cv.value, cv.value >>

C14_Witness ==
    /\ cv.pc = "done"
    /\ cv.value = max_endpoint
    /\ Len(cv.scanned) = epsize + 1
    /\ co.out # << >>

\* C15 as stated: what one call yields is the set of live intervals containing
\* p in one of the store states the call lived through.
C15_Original ==
    (cv.pc = "done" /\ cv.value \in Points /\ ~ collided) =>
        Range(co.out) \in co.seen

\* C15: with other callers committing between the node scans, every tuple a
\* call yields is a live interval containing p in some store state the call
\* lived through, and every interval that is live and contains p in all of
\* those states is yielded; with no commit in between that is the answer of
\* the one state.
C15_Bracketed ==
    (cv.pc = "done" /\ cv.value \in Points /\ ~ collided) =>
        /\ Range(co.out) \subseteq UNION co.seen
        /\ \A y \in UNION co.seen :
               (\A s \in co.seen : y \in s) => y \in Range(co.out)
        /\ (Cardinality(co.seen) = 1) => Range(co.out) \in co.seen

C15_Witness ==
    /\ cv.pc = "done"
    /\ cv.value \in Points
    /\ ~ collided
    /\ Cardinality(co.seen) = 3
    /\ Range(co.out) \notin co.seen
    /\ Range(co.out) # {}

Width(n) == n[2] - n[1]

\* the loop of cover(value) so far: at most epsize + 2 nodes scanned, every
\* node narrower than the one before it, a leaf scanned last and only last
C16_Shrinks ==
    (cv.pc # "idle") =>
        /\ Len(cv.scanned) <= epsize + 2
        /\ \A i \in 1..Len(cv.scanned) :
               /\ Width(cv.scanned[i]) >= 0
               /\ Width(cv.scanned[i]) <
                      (IF i = 1 THEN Width(CoverRoot) ELSE Width(cv.scanned[i - 1]))
               /\ (Width(cv.scanned[i]) = 0) <=> (cv.pc = "done" /\ i = Len(cv.scanned))
        /\ (cv.pc = "done") => cv.scanned # << >>
        /\ (cv.pc = "loop") => cv.lower < cv.upper

\* C16: cover(value) terminates for every value, in [0, max_endpoint] or not:
\* every turn of the loop narrows [lower, upper], the loop ends at a leaf
\* after scanning it, and at most epsize + 2 nodes are scanned.
C16_Terminates == [] C16_Shrinks /\ ((cv.pc = "loop") ~> (cv.pc = "done"))

C16_Witness ==
    /\ cv.pc = "done"
    /\ cv.value \notin Points
    /\ Len(cv.scanned) = epsize + 2
    /\ nops > 0

====
